---- MODULE Spec2Model ----
(* A model of live-preview (src/src/main.rs): main, the event_loop task      *)
(* (the Orchestrator), the child_handler task (the CommandRunner), the two   *)
(* capacity-1 mpsc channels between them and the child processes the runner  *)
(* owns.                                                                     *)
EXTENDS Integers, Sequences, FiniteSets, TLC

\* ------------------------------------------------------------------ bounds
\* Edits (Cmd::Input sends) in one session.
MaxCmds == 3
\* Characters in the input buffer.
MaxLen == 2

\* ------------------------------------------------------- program constants
\* mpsc::channel::<Cmd>(1)
CmdCap == 1
\* mpsc::channel::<String>(1)
OutCap == 1
\* cursor: u16
U16 == 65536

\* The characters typed: 'a' (U+0061, one byte) and U+00E9 (two bytes).
Chars == {97, 233}

\* ------------------------------------------------------------ Rust strings
\* A String is its UTF-8 bytes. char::encode_utf8 for code points < 0x800.
Encode(cp) ==
    IF cp < 128 THEN <<cp>> ELSE <<192 + (cp \div 64), 128 + (cp % 64)>>

\* A UTF-8 continuation byte, 10xxxxxx.
IsCont(b) == b >= 128 /\ b < 192

\* The bytes of the char whose lead byte is b.
LeadWidth(b) == IF b < 128 THEN 1 ELSE IF b < 224 THEN 2 ELSE IF b < 240 THEN 3 ELSE 4

\* str::is_char_boundary(i), i a byte index.
IsCharBoundary(s, i) ==
    \/ i = 0
    \/ i = Len(s)
    \/ (i < Len(s) /\ ~IsCont(s[i + 1]))

\* s.chars().count()
CharLen(s) == Cardinality({i \in 1..Len(s) : ~IsCont(s[i])})

\* String::len(), in bytes.
ByteLen(s) == Len(s)

\* String::insert(idx, ch) panics unless idx is a char boundary.
InsertPanics(s, idx) == ~IsCharBoundary(s, idx)
Insert(s, idx, ch) == SubSeq(s, 1, idx) \o Encode(ch) \o SubSeq(s, idx + 1, Len(s))

\* String::remove(idx) panics if idx >= len or idx is no char boundary.
RemovePanics(s, idx) == idx >= Len(s) \/ ~IsCharBoundary(s, idx)
Remove(s, idx) ==
    SubSeq(s, 1, idx) \o SubSeq(s, idx + LeadWidth(s[idx + 1]) + 1, Len(s))

\* String::from_utf8(bytes).is_ok(), for one- and two-byte sequences (the
\* bytes the modelled processes write); longer forms are rejected here.
RECURSIVE Utf8Valid(_)
Utf8Valid(bs) ==
    IF bs = <<>> THEN TRUE
    ELSE IF bs[1] < 128 THEN Utf8Valid(Tail(bs))
    ELSE IF bs[1] >= 194 /\ bs[1] < 224 /\ Len(bs) >= 2 /\ IsCont(bs[2])
         THEN Utf8Valid(Tail(Tail(bs)))
    ELSE FALSE

\* `x as u16`
AsU16(x) == x % U16

\* ------------------------------------------------------------------ values
NoChild == [id |-> 0, st |-> "none", stdout |-> <<>>, stderr |-> <<>>]
NoCmd == [tag |-> "NoCmd", text |-> <<>>, id |-> 0]
CmdInput(t, k) == [tag |-> "Input", text |-> t, id |-> k]
CmdDone == [tag |-> "Done", text |-> <<>>, id |-> 0]

NotReturned == [tag |-> "running", val |-> <<>>]
RetSome(o) == [tag |-> "Some", val |-> o]
RetNone == [tag |-> "None", val |-> <<>>]
RetErr == [tag |-> "Err", val |-> <<>>]

\* What the process of command k can have written when it exits: nothing,
\* text naming the command, or a byte that is not UTF-8.
Stdouts(k) == {<<>>, <<111, 48 + k>>, <<255>>}
Stderrs(k) == {<<>>, <<101, 48 + k>>, <<255>>}

VARIABLES
    mpc,        \* main's position
    term,       \* terminal modes held: subset of {"alt", "mouse", "raw"}
    printed,    \* what main printed to stdout (<<>>: nothing)
    opc,        \* event_loop's position
    cursor,     \* state.cursor
    input,      \* state.input
    output,     \* state.output
    pending,    \* the Cmd event_loop is sending
    endedBy,    \* the action that ended the session
    ret,        \* event_loop's return value
    drew,       \* terminal.draw ran in the last pass of event_loop's loop
    lastRecv,   \* the last String event_loop received from output_rx
    cmdq,       \* the Cmd channel's buffer
    outq,       \* the output channel's buffer: [val, id]
    rpc,        \* child_handler's position
    child,      \* child_proc (the Child held by the wait future)
    hcmd,       \* the Cmd child_handler is handling
    rpending,   \* the String child_handler is sending: [val, id]
    live,       \* ids of the child processes alive in the OS
    nCmd,       \* Cmd::Input messages created so far
    killed,     \* history: [id, by] of the children killed by a drop
    emitted,    \* history: ids of the processes whose result was sent
    spawnFails, \* history: ids of the commands whose spawn failed
    supers,     \* history: [old, new, at] a running child replaced
    rcvd        \* history: ids of the Cmd::Input child_handler received

mainVars == <<mpc, term, printed>>
orchVars == <<opc, cursor, input, output, pending, endedBy, ret, drew, lastRecv>>
chanVars == <<cmdq, outq>>
runVars == <<rpc, child, hcmd, rpending>>
osVars == <<live, nCmd>>
histVars == <<killed, emitted, spawnFails, supers, rcvd>>
vars == <<mainVars, orchVars, chanVars, runVars, osVars, histVars>>

NoMsg == [val |-> <<>>, id |-> 0]

Init ==
    /\ mpc = "enter"
    /\ term = {}
    /\ printed = <<>>
    /\ opc = "unstarted"
    /\ cursor = 0
    /\ input = <<>>
    /\ output = <<>>
    /\ pending = NoCmd
    /\ endedBy = "none"
    /\ ret = NotReturned
    /\ drew = FALSE
    /\ lastRecv = <<>>
    /\ cmdq = <<>>
    /\ outq = <<>>
    /\ rpc = "unspawned"
    /\ child = NoChild
    /\ hcmd = NoCmd
    /\ rpending = NoMsg
    /\ live = {}
    /\ nCmd = 0
    /\ killed = {}
    /\ emitted = <<>>
    /\ spawnFails = {}
    /\ supers = {}
    /\ rcvd = <<>>

\* cmd_tx and output_rx live in event_loop's frame.
TxAlive == opc \in {"unstarted", "select", "send"}
\* cmd_chan and output_chan live in child_handler's frame.
RunnerAlive == rpc \in {"unspawned", "select", "handle", "send"}


\* ---------------------------------------------------------------- helpers
\* As KillOnDrop, for a Child built without kill_on_drop(true).
KillOnDropOff(c, l) == l

\* Dropping a Child built with kill_on_drop(true) kills its process.
KillOnDrop(c, l) == l \ {c.id}

\* As DoneReturn, returning what Action::Abort returns.
DoneReturnNone(o) == RetNone

\* Action::Done => return Ok(Some(state.output))
DoneReturn(o) == RetSome(o)

\* As AbortReturn, returning what Action::Done returns.
AbortReturnOutput(o) == RetSome(o)

\* Action::Abort => return Ok(None)
AbortReturn(o) == RetNone

\* if let Some(o) = output { if !o.is_empty() { print!("{o}") } }
PrintOutput(r) == IF r.tag = "Some" /\ r.val # <<>> THEN r.val ELSE <<>>

\* As ResultOf, looking at stderr before stdout.
ResultOfStderrFirst(so, se) ==
    IF se # <<>> THEN (IF Utf8Valid(se) THEN se ELSE <<>>)
    ELSE IF so # <<>> THEN (IF Utf8Valid(so) THEN so ELSE <<>>)
    ELSE <<>>

\* The String child_handler sends for a finished process.
ResultOf(so, se) ==
    IF so # <<>> THEN (IF Utf8Valid(so) THEN so ELSE <<>>)
    ELSE IF se # <<>> THEN (IF Utf8Valid(se) THEN se ELSE <<>>)
    ELSE <<>>

\* terminal.draw(..)? at the end of a handler that leaves the cursor at c and
\* the input text i: on Ok the loop goes on, on Err event_loop returns the
\* error, its State is dropped and main returns the error through `?`.
DrawThenLoop(ok, c, i) ==
    IF ok
    THEN /\ opc' = "select"
         /\ drew' = TRUE
         /\ ret' = ret
         /\ mpc' = mpc
         /\ cursor' = c
         /\ input' = i
    ELSE /\ opc' = "failed"
         /\ drew' = FALSE
         /\ ret' = RetErr
         /\ mpc' = "exit_err"
         /\ cursor' = 0
         /\ input' = <<>>

\* A panic in event_loop unwinds it and main: the State is dropped and
\* nothing after line 27 runs.
Panic ==
    /\ opc' = "panicked"
    /\ mpc' = "panicked"
    /\ cursor' = 0
    /\ input' = <<>>
    /\ drew' = FALSE
    /\ UNCHANGED <<term, printed, output, pending, endedBy, ret, lastRecv,
                   chanVars, runVars, osVars, histVars>>

\* ------------------------------------------------------------------- main
\* execute!(stdout, EnterAlternateScreen, EnableMouseCapture)?
MainEnter ==
    /\ mpc = "enter"
    /\ \E ok \in BOOLEAN :
          IF ok
          THEN term' = {"alt", "mouse"} /\ mpc' = "newterm"
          ELSE term' \in {{}, {"alt"}, {"alt", "mouse"}} /\ mpc' = "exit_err"
    /\ UNCHANGED <<printed, orchVars, chanVars, runVars, osVars, histVars>>

\* Terminal::new(backend)?
MainNewTerminal ==
    /\ mpc = "newterm"
    /\ \E ok \in BOOLEAN : mpc' = IF ok THEN "rawmode" ELSE "exit_err"
    /\ UNCHANGED <<term, printed, orchVars, chanVars, runVars, osVars, histVars>>

\* enable_raw_mode()?
MainRawMode ==
    /\ mpc = "rawmode"
    /\ \E ok \in BOOLEAN :
          IF ok
          THEN term' = term \cup {"raw"} /\ mpc' = "loop"
          ELSE term' = term /\ mpc' = "exit_err"
    /\ UNCHANGED <<printed, orchVars, chanVars, runVars, osVars, histVars>>

\* execute!(stdout, LeaveAlternateScreen, DisableMouseCapture)?
MainLeave ==
    /\ mpc = "leave"
    /\ \E ok \in BOOLEAN :
          IF ok
          THEN term' = term \ {"alt", "mouse"} /\ mpc' = "unraw"
          ELSE term' \in {term, term \ {"alt"}} /\ mpc' = "exit_err"
    /\ UNCHANGED <<printed, orchVars, chanVars, runVars, osVars, histVars>>

\* disable_raw_mode()?
MainDisableRaw ==
    /\ mpc = "unraw"
    /\ \E ok \in BOOLEAN :
          IF ok
          THEN term' = term \ {"raw"} /\ mpc' = "print"
          ELSE term' = term /\ mpc' = "exit_err"
    /\ UNCHANGED <<printed, orchVars, chanVars, runVars, osVars, histVars>>

\* the print of the output and Ok(())
MainPrint ==
    /\ mpc = "print"
    /\ printed' = PrintOutput(ret)
    /\ mpc' = "exit_ok"
    /\ UNCHANGED <<term, orchVars, chanVars, runVars, osVars, histVars>>

\* ------------------------------------------------------------ event_loop
\* The first draw and tokio::spawn(child_handler(..)).
EventLoopStart ==
    /\ mpc = "loop"
    /\ opc = "unstarted"
    /\ \E ok \in BOOLEAN :
          /\ DrawThenLoop(ok, cursor, input)
          /\ rpc' = IF ok THEN "select" ELSE rpc
    /\ UNCHANGED <<term, printed, output, pending, endedBy,
                   lastRecv, chanVars, child, hcmd, rpending, osVars,
                   histVars>>

\* msg = output_rx.recv(), Some(output). (None needs child_handler to have
\* ended, which takes a Cmd::Done or the end of event_loop.)
OrchRecvOutput ==
    /\ opc = "select"
    /\ outq # <<>>
    /\ output' = Head(outq).val
    /\ lastRecv' = Head(outq).val
    /\ outq' = Tail(outq)
    /\ \E ok \in BOOLEAN : DrawThenLoop(ok, cursor, input)
    /\ UNCHANGED <<term, printed, pending, endedBy, cmdq,
                   runVars, osVars, histVars>>

\* input_handler() returned None: no draw.
OrchNoAction ==
    /\ opc = "select"
    /\ drew' = FALSE
    /\ UNCHANGED <<mainVars, opc, cursor, input, output, pending, endedBy, ret,
                   lastRecv, chanVars, runVars, osVars, histVars>>

\* Action::Done, up to the send of Cmd::Done.
OrchDone ==
    /\ opc = "select"
    /\ opc' = "send"
    /\ pending' = CmdDone
    /\ endedBy' = "Done"
    /\ drew' = FALSE
    /\ UNCHANGED <<mainVars, cursor, input, output, ret, lastRecv, chanVars,
                   runVars, osVars, histVars>>

\* Action::Abort, up to the send of Cmd::Done.
OrchAbort ==
    /\ opc = "select"
    /\ opc' = "send"
    /\ pending' = CmdDone
    /\ endedBy' = "Abort"
    /\ drew' = FALSE
    /\ UNCHANGED <<mainVars, cursor, input, output, ret, lastRecv, chanVars,
                   runVars, osVars, histVars>>

\* As OrchCursorLeft, clearing the displayed output as well.
OrchCursorLeftClears ==
    /\ opc = "select"
    /\ output' = <<>>
    /\ \E ok \in BOOLEAN :
          DrawThenLoop(ok, IF cursor > 0 THEN cursor - 1 ELSE cursor, input)
    /\ UNCHANGED <<term, printed, pending, endedBy, lastRecv,
                   chanVars, runVars, osVars, histVars>>

\* Action::CursorLeft
OrchCursorLeft ==
    /\ opc = "select"
    /\ \E ok \in BOOLEAN :
          DrawThenLoop(ok, IF cursor > 0 THEN cursor - 1 ELSE cursor, input)
    /\ UNCHANGED <<term, printed, output, pending, endedBy, lastRecv,
                   chanVars, runVars, osVars, histVars>>

\* Action::CursorRight: the bound is the byte length, cast to u16.
OrchCursorRight ==
    /\ opc = "select"
    /\ \E ok \in BOOLEAN :
          DrawThenLoop(ok,
                       IF cursor < AsU16(ByteLen(input)) THEN AsU16(cursor + 1)
                                                         ELSE cursor,
                       input)
    /\ UNCHANGED <<term, printed, output, pending, endedBy, lastRecv,
                   chanVars, runVars, osVars, histVars>>

\* Action::Delete: nothing at cursor 0; else the cursor steps back, the char
\* at that byte index is removed (or remove panics) and the text is sent.
OrchDelete ==
    /\ opc = "select"
    /\ IF cursor = 0
       THEN /\ \E ok \in BOOLEAN : DrawThenLoop(ok, cursor, input)
            /\ UNCHANGED <<term, printed, output, pending,
                           endedBy, lastRecv, chanVars, runVars, osVars,
                           histVars>>
       ELSE /\ nCmd < MaxCmds
            /\ IF RemovePanics(input, cursor - 1)
               THEN Panic
               ELSE /\ cursor' = cursor - 1
                    /\ input' = Remove(input, cursor - 1)
                    /\ nCmd' = nCmd + 1
                    /\ pending' = CmdInput(input', nCmd + 1)
                    /\ opc' = "send"
                    /\ drew' = FALSE
                    /\ UNCHANGED <<mainVars, output, endedBy, ret, lastRecv,
                                   chanVars, runVars, live, histVars>>

\* Action::Type(chr): insert at the cursor's byte index (or insert panics),
\* cursor += 1 (overflow panics in a debug build and wraps in a release
\* build), then the text is sent.
TypeChar(chr) ==
    /\ opc = "select"
    /\ \E wraps \in (IF cursor + 1 >= U16 THEN BOOLEAN ELSE {TRUE}) :
          IF InsertPanics(input, cursor) \/ ~wraps
          THEN Panic
          ELSE /\ input' = Insert(input, cursor, chr)
               /\ cursor' = AsU16(cursor + 1)
               /\ nCmd' = nCmd + 1
               /\ pending' = CmdInput(input', nCmd + 1)
               /\ opc' = "send"
               /\ drew' = FALSE
               /\ UNCHANGED <<mainVars, output, endedBy, ret, lastRecv,
                              chanVars, runVars, live, histVars>>

\* Action::Type(chr) within the model's bounds.
OrchType(chr) ==
    /\ CharLen(input) < MaxLen
    /\ nCmd < MaxCmds
    /\ TypeChar(chr)

\* cmd_tx.send(..).await? and what follows it: for Cmd::Input the draw at the
\* end of the handler, for Cmd::Done the return, which moves state.output out
\* and drops the rest of the State. The send waits for room in the channel
\* and fails when the receiver is gone.
OrchSend ==
    /\ opc = "send"
    /\ (RunnerAlive => Len(cmdq) < CmdCap)
    /\ IF ~RunnerAlive
       THEN /\ opc' = "failed"
            /\ ret' = RetErr
            /\ mpc' = "exit_err"
            /\ cursor' = 0
            /\ input' = <<>>
            /\ UNCHANGED <<cmdq, drew>>
       ELSE /\ cmdq' = Append(cmdq, pending)
            /\ IF pending.tag = "Done"
               THEN /\ opc' = "returned"
                    /\ ret' = IF endedBy = "Done" THEN DoneReturn(output)
                                                  ELSE AbortReturn(output)
                    /\ mpc' = "leave"
                    /\ drew' = drew
                    /\ cursor' = 0
                    /\ input' = <<>>
               ELSE \E ok \in BOOLEAN : DrawThenLoop(ok, cursor, input)
    /\ pending' = NoCmd
    /\ UNCHANGED <<term, printed, output, endedBy,
                   lastRecv, outq, runVars, osVars, histVars>>


\* --------------------------------------------------------- child processes
\* The running child exits with its pipes drained, or waiting for it fails.
ProcExit ==
    /\ child.st = "running"
    /\ child.id \in live
    /\ live' = live \ {child.id}
    /\ \/ \E so \in Stdouts(child.id), se \in Stderrs(child.id) :
             child' = [child EXCEPT !.st = "exited", !.stdout = so, !.stderr = se]
       \/ child' = [child EXCEPT !.st = "waiterr"]
    /\ UNCHANGED <<mainVars, orchVars, chanVars, rpc, hcmd, rpending, nCmd,
                   histVars>>

\* ----------------------------------------------------------- child_handler
\* select! with child_proc None: OptionFuture is ready with None at once and
\* the branch sets child_proc = None.
RunnerIdlePoll ==
    /\ rpc = "select"
    /\ child = NoChild
    /\ UNCHANGED vars

\* The wait branch wins: Some(Ok(o)) goes on to send the String chosen from
\* o.stdout and o.stderr, Some(Err(_)) sends nothing.
RunnerComplete ==
    /\ rpc = "select"
    /\ child.st \in {"exited", "waiterr"}
    /\ IF child.st = "exited"
       THEN /\ rpending' = [val |-> ResultOf(child.stdout, child.stderr),
                            id |-> child.id]
            /\ rpc' = "send"
       ELSE UNCHANGED <<rpending, rpc>>
    /\ child' = NoChild
    /\ UNCHANGED <<mainVars, orchVars, chanVars, hcmd, osVars, histVars>>

\* As RunnerSend, but the result stays to be sent again by the next pass.
RunnerSendKeeps ==
    /\ rpc = "send"
    /\ TxAlive
    /\ Len(outq) < OutCap
    /\ outq' = Append(outq, rpending)
    /\ emitted' = Append(emitted, rpending.id)
    /\ UNCHANGED <<mainVars, orchVars, cmdq, runVars, osVars, killed,
                   spawnFails, supers, rcvd>>

\* output_chan.send(s).await?, then child_proc = None and the next select!.
RunnerSend ==
    /\ rpc = "send"
    /\ (TxAlive => Len(outq) < OutCap)
    /\ IF ~TxAlive
       THEN /\ rpc' = "ended_err"
            /\ UNCHANGED <<outq, emitted>>
       ELSE /\ outq' = Append(outq, rpending)
            /\ emitted' = Append(emitted, rpending.id)
            /\ rpc' = "select"
    /\ rpending' = NoMsg
    /\ UNCHANGED <<mainVars, orchVars, cmdq, child, hcmd, osVars, killed,
                   spawnFails, supers, rcvd>>

\* The recv branch wins with Some(cmd): select! drops the wait future, and
\* with it the Child, before the handler runs.
RunnerRecv ==
    /\ rpc = "select"
    /\ cmdq # <<>>
    /\ hcmd' = Head(cmdq)
    /\ cmdq' = Tail(cmdq)
    /\ rpc' = "handle"
    /\ live' = IF child = NoChild THEN live ELSE KillOnDrop(child, live)
    /\ killed' = IF child.id \in live
                 THEN killed \cup {[id |-> child.id, by |-> Head(cmdq).tag]}
                 ELSE killed
    /\ supers' = IF child.st = "running" /\ Head(cmdq).tag = "Input"
                 THEN supers \cup {[old |-> child.id, new |-> Head(cmdq).id,
                                    at |-> Len(emitted)]}
                 ELSE supers
    /\ rcvd' = IF Head(cmdq).tag = "Input" THEN Append(rcvd, Head(cmdq).id)
                                           ELSE rcvd
    /\ child' = NoChild
    /\ UNCHANGED <<mainVars, orchVars, outq, rpending, nCmd, emitted,
                   spawnFails>>

\* Cmd::Input(input): spawn zsh -c input; Ok(p) is the new child_proc, an
\* error leaves child_proc None.
RunnerSpawn ==
    /\ rpc = "handle"
    /\ hcmd.tag = "Input"
    /\ \E ok \in BOOLEAN :
          IF ok
          THEN /\ child' = [NoChild EXCEPT !.id = hcmd.id, !.st = "running"]
               /\ live' = live \cup {hcmd.id}
               /\ spawnFails' = spawnFails
          ELSE /\ child' = NoChild
               /\ live' = live
               /\ spawnFails' = spawnFails \cup {hcmd.id}
    /\ rpc' = "select"
    /\ hcmd' = NoCmd
    /\ UNCHANGED <<mainVars, orchVars, chanVars, rpending, nCmd, killed,
                   emitted, supers, rcvd>>

\* Cmd::Done => return Ok(())
RunnerDone ==
    /\ rpc = "handle"
    /\ hcmd.tag = "Done"
    /\ rpc' = "ended_ok"
    /\ hcmd' = NoCmd
    /\ UNCHANGED <<mainVars, orchVars, chanVars, child, rpending, osVars,
                   histVars>>

\* The recv branch wins with None (cmd_tx dropped, channel empty): the wait
\* future is dropped, child_proc = None, and the loop goes on.
RunnerRecvClosed ==
    /\ rpc = "select"
    /\ cmdq = <<>>
    /\ ~TxAlive
    /\ live' = IF child = NoChild THEN live ELSE KillOnDrop(child, live)
    /\ killed' = IF child.id \in live
                 THEN killed \cup {[id |-> child.id, by |-> "Closed"]}
                 ELSE killed
    /\ child' = NoChild
    /\ UNCHANGED <<mainVars, orchVars, chanVars, rpc, hcmd, rpending, nCmd,
                   emitted, spawnFails, supers, rcvd>>

\* main has returned or panicked: the runtime is dropped and drops the
\* child_handler task at an await, and with it the Child it holds.
RuntimeShutdown ==
    /\ mpc \in {"exit_ok", "exit_err", "panicked"}
    /\ rpc \in {"select", "send"}
    /\ rpc' = "cancelled"
    /\ live' = IF child = NoChild THEN live ELSE KillOnDrop(child, live)
    /\ killed' = IF child.id \in live
                 THEN killed \cup {[id |-> child.id, by |-> "Shutdown"]}
                 ELSE killed
    /\ child' = NoChild
    /\ rpending' = NoMsg
    /\ UNCHANGED <<mainVars, orchVars, chanVars, hcmd, nCmd, emitted,
                   spawnFails, supers, rcvd>>

Next ==
    \/ MainEnter
    \/ MainNewTerminal
    \/ MainRawMode
    \/ EventLoopStart
    \/ OrchRecvOutput
    \/ OrchNoAction
    \/ OrchDone
    \/ OrchAbort
    \/ OrchCursorLeft
    \/ OrchCursorRight
    \/ OrchDelete
    \/ \E chr \in Chars : OrchType(chr)
    \/ OrchSend
    \/ ProcExit
    \/ RunnerIdlePoll
    \/ RunnerComplete
    \/ RunnerSend
    \/ RunnerRecv
    \/ RunnerSpawn
    \/ RunnerDone
    \/ RunnerRecvClosed
    \/ RuntimeShutdown
    \/ MainLeave
    \/ MainDisableRaw
    \/ MainPrint

Spec == Init /\ [][Next]_vars

\* The runtime keeps polling both tasks and select! picks among its ready
\* branches at random: a send with room in its channel, a ready wait branch
\* and a ready output_rx branch are not put off forever.
SpecFair ==
    /\ Init
    /\ [][Next]_vars
    /\ WF_vars(OrchSend)
    /\ WF_vars(OrchRecvOutput)
    /\ WF_vars(RunnerComplete)
    /\ WF_vars(RunnerSend)

\* ------------------------------------------------- the round-trip session
\* The keys of the round-trip scenario: e c h o space h i, then Enter.
Script == <<101, 99, 104, 111, 32, 104, 105>>

\* What `zsh -c text` writes for a prefix of "echo hi": echo writes its
\* argument and a newline to stdout; any other word is no command, and zsh
\* writes a message (here the word, '?' and a newline) to stderr.
EchoOut(text) ==
    IF Len(text) >= 4 /\ SubSeq(text, 1, 4) = <<101, 99, 104, 111>>
       /\ (Len(text) = 4 \/ text[5] = 32)
    THEN [stdout |-> SubSeq(text, 6, Len(text)) \o <<10>>, stderr |-> <<>>]
    ELSE [stdout |-> <<>>, stderr |-> text \o <<63, 10>>]

\* The next key of the script is typed.
TripType ==
    /\ nCmd < Len(Script)
    /\ TypeChar(Script[nCmd + 1])

\* Enter, after the last key of the script.
TripDone ==
    /\ nCmd = Len(Script)
    /\ OrchDone

\* The running child, zsh -c on the first child.id keys of the script, exits.
TripProcExit ==
    /\ child.st = "running"
    /\ child.id \in live
    /\ live' = live \ {child.id}
    /\ child' = [child EXCEPT
                    !.st = "exited",
                    !.stdout = EchoOut(SubSeq(Script, 1, child.id)).stdout,
                    !.stderr = EchoOut(SubSeq(Script, 1, child.id)).stderr]
    /\ UNCHANGED <<mainVars, orchVars, chanVars, rpc, hcmd, rpending, nCmd,
                   histVars>>

NextTrip ==
    \/ MainEnter
    \/ MainNewTerminal
    \/ MainRawMode
    \/ EventLoopStart
    \/ OrchRecvOutput
    \/ TripType
    \/ TripDone
    \/ OrchSend
    \/ TripProcExit
    \/ RunnerIdlePoll
    \/ RunnerComplete
    \/ RunnerSend
    \/ RunnerRecv
    \/ RunnerSpawn
    \/ RunnerDone
    \/ RunnerRecvClosed
    \/ RuntimeShutdown
    \/ MainLeave
    \/ MainDisableRaw
    \/ MainPrint

SpecTrip == Init /\ [][NextTrip]_vars


\* ================================================================= claims
Range(q) == {q[i] : i \in 1..Len(q)}

\* C1: at most one managed child process is alive at any time, and a process
\* that is alive is the one child_handler currently holds: a child replaced
\* by a Cmd::Input is dead before its replacement is spawned.
C1_AtMostOneLiveChild ==
    /\ Cardinality(live) <= 1
    /\ \A p \in live : child.id = p /\ child.st = "running"

\* C1 witness: a running child was killed by a Cmd::Input and the
\* replacement is alive.
C1_Witness ==
    \E k \in killed : k.by = "Input" /\ live # {} /\ child.id > k.id

\* C2 (as claimed): event_loop is never blocked in cmd_tx.send on a full
\* command channel while child_handler is blocked in output_chan.send on a
\* full output channel; from such a state neither task ever moves again.
C2_NoSendDeadlock ==
    ~ /\ opc = "send"
      /\ Len(cmdq) >= CmdCap
      /\ rpc = "send"
      /\ Len(outq) >= OutCap

\* C3 (as claimed): the cursor never exceeds the number of characters of the
\* input text.
C3_CursorWithinChars == cursor >= 0 /\ cursor <= CharLen(input)

\* C4 (as claimed): CursorLeft at cursor 0, CursorRight at cursor =
\* length(text) in characters and Delete at cursor 0, when the redraw after
\* them succeeds, change neither the text, the cursor nor the output and send
\* nothing; CursorLeft and CursorRight never send.
C4_NoOpsAtTheBounds ==
    [][ /\ (OrchCursorLeft /\ cursor = 0 /\ opc' = "select")
           => UNCHANGED <<cursor, input, output, pending, cmdq, nCmd>>
        /\ (OrchCursorRight /\ cursor = CharLen(input) /\ opc' = "select")
           => UNCHANGED <<cursor, input, output, pending, cmdq, nCmd>>
        /\ (OrchDelete /\ cursor = 0 /\ opc' = "select")
           => UNCHANGED <<cursor, input, output, pending, cmdq, nCmd>>
        /\ (OrchCursorLeft \/ OrchCursorRight)
           => UNCHANGED <<pending, cmdq, nCmd>> ]_vars

\* C5 (as claimed): every Type and every Delete at cursor > 0 goes on to send
\* one Cmd::Input carrying the buffer as the edit left it, and child_handler
\* receives the commands in the order of the edits.
C5_EveryEditSendsTheText ==
    /\ [][ ((\E chr \in Chars : OrchType(chr)) \/ (OrchDelete /\ cursor > 0))
           => /\ opc' = "send"
              /\ nCmd' = nCmd + 1
              /\ pending' = CmdInput(input', nCmd') ]_vars
    /\ [](\A i \in 1..Len(rcvd) : rcvd[i] = i)

\* C6: when the session has ended by Done, event_loop has returned
\* Some(state.output), the text of the last String it received (empty if it
\* received none), whatever is still in the output channel.
C6_CommitReturnsDisplayed ==
    (endedBy = "Done" /\ opc = "returned")
        => ret = RetSome(output) /\ output = lastRecv

\* C6 witness: the session ended by Done with a non-empty output while a
\* different result was still in the channel.
C6_Witness ==
    /\ endedBy = "Done"
    /\ opc = "returned"
    /\ ret.val # <<>>
    /\ outq # <<>>
    /\ Head(outq).val # ret.val

\* C7: a session ended by Abort returns None and prints nothing; whatever is
\* printed is the non-empty output a session ended by Done returned.
C7_AbortPrintsNothing ==
    /\ (endedBy = "Abort" /\ opc = "returned") => ret = RetNone
    /\ endedBy = "Abort" => printed = <<>>
    /\ printed # <<>> => (endedBy = "Done" /\ ret = RetSome(printed))

\* C7 witness: main has finished a session ended by Abort that displayed a
\* non-empty output.
C7_Witness ==
    /\ endedBy = "Abort"
    /\ mpc = "exit_ok"
    /\ output # <<>>

\* C8 (as claimed): once Cmd::Input(B) was received while A's process ran,
\* A's process is dead, no result of A is sent, and the next result sent is
\* the one of B's process.
C8_NextResultIsOfB ==
    \A s \in supers :
        /\ s.old \notin live
        /\ s.old \notin Range(emitted)
        /\ rpending.id # s.old
        /\ Len(emitted) > s.at => emitted[s.at + 1] = s.new

\* C8 (amended): once Cmd::Input(B) was received while A's process ran, A's
\* process is dead, no result of A is sent, and every result sent afterwards
\* is the one of B's process or of the process of a command after B.
C8_LaterResultsNotOlderThanB ==
    \A s \in supers :
        /\ s.old \notin live
        /\ s.old \notin Range(emitted)
        /\ rpending.id # s.old
        /\ \A i \in (s.at + 1)..Len(emitted) : emitted[i] >= s.new

\* C8 witness: B replaced the running A and the next result sent is B's.
C8_Witness ==
    \E s \in supers : Len(emitted) > s.at /\ emitted[s.at + 1] = s.new

\* C9: when child_handler has taken Cmd::Done no managed process is alive,
\* the task ends, and from then on it receives no command and sends no
\* result.
C9_DoneEndsTheRunner ==
    /\ []((rpc = "handle" /\ hcmd.tag = "Done") => live = {})
    /\ [](rpc = "ended_ok" => (live = {} /\ child = NoChild))
    /\ [][rpc = "ended_ok"
          => /\ rpc' = "ended_ok"
             /\ UNCHANGED <<cmdq, outq, emitted, rcvd, live, child>>]_vars

\* C9 witness: child_handler ended on a Cmd::Done that it received while a
\* child was running.
C9_Witness ==
    /\ rpc = "ended_ok"
    /\ \E k \in killed : k.by = "Done"

\* C10 (as claimed): a command whose spawn failed gets a result of no output
\* sent to event_loop.
C10_SpawnFailureSendsEmpty ==
    \A k \in spawnFails :
        \/ rpc = "send" /\ rpending = [val |-> <<>>, id |-> k]
        \/ k \in Range(emitted)


\* What child_handler got from wait_with_output cannot be decoded: the
\* stream it reports (stdout, or stderr when stdout is empty) is not UTF-8.
Undecodable(c) ==
    \/ c.stdout # <<>> /\ ~Utf8Valid(c.stdout)
    \/ c.stdout = <<>> /\ c.stderr # <<>> /\ ~Utf8Valid(c.stderr)

\* C11 (as claimed): for a process whose reported stream is not valid text
\* child_handler goes on to send a result that is not the one of a process
\* that wrote nothing.
C11_UndecodableIsDistinct ==
    [][ (RunnerComplete /\ child.st = "exited" /\ Undecodable(child))
        => (rpc' = "send" /\ rpending'.val # <<>>) ]_vars

\* C13 (as claimed): every pass of event_loop's loop that handles an input
\* event (an unmapped one, Done and Abort included) or a result draws before
\* the next pass or the return.
C13_RedrawAfterEveryEvent ==
    [][ /\ (OrchNoAction \/ OrchRecvOutput \/ OrchCursorLeft \/ OrchCursorRight
            \/ (OrchDelete /\ cursor = 0))
           => (drew' \/ opc' = "failed")
        /\ (OrchSend /\ opc' \in {"select", "returned"}) => drew' ]_vars

\* C14 (as claimed): once the alternate screen was entered, main ends with
\* alternate screen, mouse capture and raw mode all given back, and it
\* prints only after they were.
C14_TerminalRestoredOnExit ==
    [][ /\ (mpc # "enter" /\ mpc' \in {"exit_ok", "exit_err"}) => term' = {}
        /\ mpc' = "print" => term' = {} ]_vars

\* C15: when the wait for the child completes with its output, child_handler
\* holds no child any more and goes on to send one result for it: the stdout
\* text if stdout is not empty, else the stderr text if stderr is not empty,
\* else the empty text, and never stderr when stdout is not empty; the send
\* puts that one result in the channel and returns to the idle select!.
C15_CompletionSendsStdoutElseStderr ==
    /\ [][ (RunnerComplete /\ child.st = "exited")
           => /\ rpc' = "send"
              /\ child' = NoChild
              /\ rpending'.id = child.id
              /\ (child.stdout # <<>> /\ Utf8Valid(child.stdout))
                 => rpending'.val = child.stdout
              /\ (child.stdout = <<>> /\ child.stderr # <<>>
                  /\ Utf8Valid(child.stderr))
                 => rpending'.val = child.stderr
              /\ (child.stdout = <<>> /\ child.stderr = <<>>)
                 => rpending'.val = <<>>
              /\ (child.stdout # <<>> /\ child.stderr # <<>>)
                 => rpending'.val # child.stderr ]_vars
    /\ [][ (RunnerSend /\ TxAlive)
           => /\ outq' = Append(outq, rpending)
              /\ emitted' = Append(emitted, rpending.id)
              /\ rpc' = "select"
              /\ child' = NoChild ]_vars
    /\ [](\A i, j \in 1..Len(emitted) : i # j => emitted[i] # emitted[j])

\* C15 witness: a process with empty stdout completed and its stderr text is
\* being sent.
C15_Witness ==
    /\ rpc = "send"
    /\ rpending.val = <<101, 48 + rpending.id>>

\* C16 (as claimed): no edit operation fails.
C16_EditsNeverPanic == opc # "panicked"

\* C17 (as claimed): child_handler ends with an error when it sends a result
\* after output_rx is gone and when it waits for a command after cmd_tx is
\* gone.
C17_BrokenChannelEndsTheRunner ==
    [][ /\ (RunnerSend /\ ~TxAlive) => rpc' = "ended_err"
        /\ RunnerRecvClosed => rpc' = "ended_err" ]_vars

\* C19: the results sent are of commands child_handler received and whose
\* spawn succeeded, at most one for each and in the order of the commands;
\* the channel holds the last of them in that order, so event_loop receives
\* them in the order of the commands; nothing is being sent while
\* child_handler waits without a child.
C19_ResultsInCommandOrder ==
    /\ \A i, j \in 1..Len(emitted) : i < j => emitted[i] < emitted[j]
    /\ Range(emitted) \subseteq (Range(rcvd) \ spawnFails)
    /\ rpc = "send"
       => /\ rpending.id \in (Range(rcvd) \ spawnFails)
          /\ \A i \in 1..Len(emitted) : emitted[i] < rpending.id
    /\ rpc # "send" => rpending = NoMsg
    /\ Len(outq) <= Len(emitted)
    /\ \A i \in 1..Len(outq) :
          outq[i].id = emitted[Len(emitted) - Len(outq) + i]

\* C19 witness: two results were sent and received.
C19_Witness ==
    /\ Len(emitted) >= 2
    /\ outq = <<>>
    /\ output = <<111, 48 + emitted[Len(emitted)]>>

\* C20: the displayed output changes only by event_loop taking a result from
\* the channel; that step, while the loop goes on, leaves the input text and
\* the cursor alone, and
\* Type, Delete, the cursor moves and unmapped events leave the output alone.
C20_OutputChangesOnlyOnResult ==
    [][ /\ output' # output
           => /\ opc = "select"
              /\ outq # <<>>
              /\ output' = Head(outq).val
              /\ outq' = Tail(outq)
        /\ (Len(outq') < Len(outq) /\ opc' = "select")
           => UNCHANGED <<input, cursor>>
        /\ ((\E chr \in Chars : OrchType(chr)) \/ OrchDelete \/ OrchCursorLeft
            \/ OrchCursorRight \/ OrchNoAction)
           => output' = output ]_vars

\* C20 witness: an edit was handled while a non-empty output was displayed,
\* and the output is still displayed.
C20_Witness ==
    /\ opc = "send"
    /\ pending.tag = "Input"
    /\ output # <<>>


\* C18: if from some point on the session goes on with no further edit after
\* the k-th, and the process spawned for the k-th text exits having written
\* text to stdout (or, stdout being empty, text or nothing to stderr), then
\* from some point on the displayed output is that text.
C18_LastOutputIsDisplayed ==
    \A k \in 1..MaxCmds :
        \A w \in {<<<<111, 48 + k>>, <<101, 48 + k>>, <<111, 48 + k>>>>,
                  <<<<>>, <<101, 48 + k>>, <<101, 48 + k>>>>,
                  <<<<>>, <<>>, <<>>>>} :
            ( /\ <>[](nCmd = k /\ opc \in {"select", "send"})
              /\ <>(child.id = k /\ child.st = "exited"
                    /\ child.stdout = w[1] /\ child.stderr = w[2]) )
            => <>[](output = w[3])

\* C18 witness: after the last of several edits its process's stdout text is
\* displayed and child_handler is idle.
C18_Witness ==
    /\ nCmd >= 2
    /\ opc = "select"
    /\ rpc = "select"
    /\ child = NoChild
    /\ nCmd \in Range(emitted)
    /\ output = <<111, 48 + nCmd>>


\* event_loop has received the result of the process of command k.
Received(k) ==
    /\ k \in Range(emitted)
    /\ \A i \in 1..Len(outq) : outq[i].id # k

\* C12 (as claimed): in the round-trip session, whatever the interleaving,
\* Done returns "hi\n", the output of running "echo hi".
C12_TripReturnsHi ==
    (endedBy = "Done" /\ opc = "returned") => ret = RetSome(<<104, 105, 10>>)

\* C12 (amended): in the round-trip session Done returns "hi\n" when
\* event_loop received the result of the "echo hi" process before it handled
\* Done; otherwise it returns the last result it received before, the one of
\* a process run on a shorter prefix of the text, or the empty text if it
\* received none.
C12_TripReturnsLastReceived ==
    (endedBy = "Done" /\ opc = "returned")
        => /\ ret.tag = "Some"
           /\ Received(Len(Script)) => ret.val = <<104, 105, 10>>
           /\ (\A k \in 1..Len(Script) : ~Received(k)) => ret.val = <<>>
           /\ \/ ret.val = <<>>
              \/ \E k \in 1..Len(Script) :
                    /\ Received(k)
                    /\ \A j \in (k + 1)..Len(Script) : ~Received(j)
                    /\ ret.val \in {<<10>>, <<104, 10>>, <<104, 105, 10>>,
                                    SubSeq(Script, 1, k) \o <<63, 10>>}

\* C12 witness: the round-trip session ended by Done returning "hi\n".
C12_Witness ==
    /\ endedBy = "Done"
    /\ opc = "returned"
    /\ ret = RetSome(<<104, 105, 10>>)

====
